---------------------------- MODULE Spec2Model ----------------------------
(***************************************************************************)
(* A model of giraffez's column codec, src/giraffez/src/convert.c: the     *)
(* decode ("unpack") routines that walk a row buffer through a cursor, the *)
(* encode ("pack") routines that append to an output cursor and a running  *)
(* byte counter, and the two module-level scratch buffers they share.      *)
(*                                                                         *)
(* Text is a sequence of one-character strings, a buffer is a sequence of  *)
(* bytes (0..255).  TLC's integers are 32 bits wide, so every integer the  *)
(* model handles lies in the int32 range; 8- and 16-byte fields hold such  *)
(* values sign-extended.                                                   *)
(***************************************************************************)
EXTENDS Integers, Sequences, FiniteSets, TLC

VARIABLES
    mem,      \* decode: the row buffer followed by the memory that lies after it
    size,     \* decode: the number of bytes of mem that are the row buffer
    pos,      \* decode: the cursor *data, as an offset into mem
    row,      \* decode: the row's column descriptors, each with the value on the wire
    col,      \* decode: index of the next column to decode; 0 once the row is aborted
    out,      \* encode: the bytes written through *buf (the cursor is at Len(out))
    len,      \* encode: the running byte counter *len (uint16_t)
    ncalls,   \* encode: number of encode calls made on this output cursor
    last,     \* the last call: its arguments, what it returned, what it moved
    buffer,   \* static char buffer[BUFFER_SIZE]
    dbuf,     \* char dbuf[1024]
    pc,       \* concurrent calls: each call's position
    arg,      \* concurrent calls: each call's own input
    tres      \* concurrent calls: each call's result

vars == <<mem, size, pos, row, col, out, len, ncalls, last, buffer, dbuf, pc, arg, tres>>

decVars == <<mem, size, pos, row, col>>
encVars == <<out, len, ncalls>>
concVars == <<pc, arg, tres>>

-----------------------------------------------------------------------------
(* Bounds of the model. *)

\* largest decimal scale a column descriptor carries in the model
MaxScale == 3
\* the row buffer may end up to MaxCut bytes before the row does
MaxCut == 2
\* encode calls made on one output cursor
MaxCalls == 2

-----------------------------------------------------------------------------
(* C integer arithmetic. *)

RECURSIVE Pow(_, _)
Pow(b, n) == IF n = 0 THEN 1 ELSE b * Pow(b, n - 1)

Abs(a) == IF a < 0 THEN -a ELSE a

\* C's / on integers truncates toward zero
TruncDiv(a, b) ==
    IF (a < 0) = (b < 0) THEN Abs(a) \div Abs(b) ELSE -(Abs(a) \div Abs(b))

\* C's %: the remainder has the sign of the dividend
TruncRem(a, b) == a - b * TruncDiv(a, b)

\* largest value of a signed integer of w bytes (w in {1, 2}; wider ones exceed TLC)
IntMax(w) == Pow(2, 8 * w - 1) - 1
IntMin(w) == -Pow(2, 8 * w - 1)

\* whether v fits a signed integer of w bytes; every TLC integer fits 4 and 8 bytes
Fits(v, w) == w >= 4 \/ (IntMin(w) <= v /\ v <= IntMax(w))

\* conversion of an integer to a signed type of w bytes: the value modulo 2^(8w)
Narrow(v, w) ==
    IF w >= 4 THEN v
    ELSE ((v - IntMin(w)) % Pow(2, 8 * w)) + IntMin(w)

-----------------------------------------------------------------------------
(* Characters and bytes. *)

DigitChars == <<"0", "1", "2", "3", "4", "5", "6", "7", "8", "9">>

Alphabet == {DigitChars[i] : i \in 1..10} \cup {"-", "+", ".", ":", " ", "A", "B", "g", "x"}

\* the ASCII code of a character
Ord(c) ==
    CASE c = " " -> 32
      [] c = "+" -> 43
      [] c = "-" -> 45
      [] c = "." -> 46
      [] c = ":" -> 58
      [] c = "A" -> 65
      [] c = "B" -> 66
      [] c = "g" -> 103
      [] c = "x" -> 120
      [] OTHER -> 47 + (CHOOSE i \in 1..10 : DigitChars[i] = c)

Bytes(text) == [i \in 1..Len(text) |-> Ord(text[i])]

IsDigit(b) == 48 <= b /\ b <= 57

-----------------------------------------------------------------------------
(* The buffer cursor's primitives (util.h).  Integers are little-endian    *)
(* two's complement.                                                       *)

\* the w little-endian bytes of the signed integer v
RECURSIVE pack_int(_, _)
pack_int(v, w) ==
    IF w = 0 THEN <<>> ELSE <<v % 256>> \o pack_int(v \div 256, w - 1)

\* the unsigned value of little-endian bytes
RECURSIVE UnsignedLE(_)
UnsignedLE(bs) ==
    IF bs = <<>> THEN 0 ELSE bs[1] + 256 * UnsignedLE(Tail(bs))

\* the signed (two's complement) value of little-endian bytes
RECURSIVE SignedLE(_)
SignedLE(bs) ==
    IF Len(bs) = 1 THEN (IF bs[1] >= 128 THEN bs[1] - 256 ELSE bs[1])
    ELSE bs[1] + 256 * SignedLE(Tail(bs))

\* values an uninitialised local may hold
Uninit == {0, -1}

\* values an uninitialised uint16_t length may hold, among those that keep the read
\* inside the memory the model has
UninitLength == {0, 3}

\* unpack_<type>(data, &v) with the cursor at p: reads w bytes and advances the
\* cursor by w; with fewer than w bytes left it fails (OutOfBounds), leaves the
\* cursor where it was and leaves v as it was: g, the caller's uninitialised local.
\* bytes is v's representation
unpack(p, w, g) ==
    IF p + w <= size
    THEN [ok |-> TRUE, bytes |-> SubSeq(mem, p + 1, p + w), pos |-> p + w]
    ELSE [ok |-> FALSE, bytes |-> pack_int(g, w), pos |-> p]

\* whether the signed value of the bytes is an int32 (the integers TLC has)
Representable(bs) ==
    Len(bs) <= 4 \/ \A i \in 5..Len(bs) : bs[i] = (IF bs[4] >= 128 THEN 255 ELSE 0)

-----------------------------------------------------------------------------
(* Formatting (printf and Python's %). *)

\* the decimal digits of n >= 0
RECURSIVE Digits(_)
Digits(n) ==
    IF n < 10 THEN <<DigitChars[n + 1]>>
    ELSE Digits(n \div 10) \o <<DigitChars[(n % 10) + 1]>>

RECURSIVE Repeat(_, _)
Repeat(c, n) == IF n <= 0 THEN <<>> ELSE <<c>> \o Repeat(c, n - 1)

\* "%d"
FmtD(n) == IF n < 0 THEN <<"-">> \o Digits(-n) ELSE Digits(n)

\* "%0*d": zero-padded on the left to at least width characters, the sign first
FmtZeroD(width, n) ==
    IF n < 0 THEN <<"-">> \o Repeat("0", width - 1 - Len(Digits(-n))) \o Digits(-n)
    ELSE Repeat("0", width - Len(Digits(n))) \o Digits(n)

\* pystring_from_cformat(fmt, x, column_scale, y) for the two formats its callers pass
pystring_from_cformat(fmt, x, width, y) ==
    (IF fmt = "-%d.%0*d" THEN <<"-">> ELSE <<>>) \o FmtD(x) \o <<".">> \o FmtZeroD(width, y)

-----------------------------------------------------------------------------
(* Decimal decode. *)

\* (intN_t)pow(10, column_scale): exact when 10^column_scale fits the type;
\* otherwise the conversion from double is undefined: the builds either keep the
\* low bytes of the 32-bit conversion (x86) or saturate (ARM)
pow_cast(w, column_scale) ==
    LET p == Pow(10, column_scale) IN
    IF Fits(p, w) THEN {p} ELSE {Narrow(p, w), IntMax(w)}

\* the text without the sign selection: a model of a decoder that forgets it
decimalN_unsigned(v, column_scale, scale) ==
    IF column_scale > 0
    THEN pystring_from_cformat("%d.%0*d", Abs(TruncDiv(v, scale)),
                               column_scale, Abs(TruncRem(v, scale)))
    ELSE FmtD(v)

\* decimal8/16/32/64_to_pystring on the unpacked value v; scale is the cast power
decimalN_to_pystring(v, column_scale, scale) ==
    IF column_scale > 0
    THEN LET fmt == IF v < 0 THEN "-%d.%0*d" ELSE "%d.%0*d"
             x == Abs(TruncDiv(v, scale))
             y == Abs(TruncRem(v, scale))
         IN pystring_from_cformat(fmt, x, column_scale, y)
    ELSE FmtD(v)

\* decimal128_to_pystring on v = (q << 64) | Q: Python's floor division and
\* remainder, formatted "%d.%0<scale>d"
decimal128_to_pystring(v, column_scale) ==
    IF column_scale > 0
    THEN LET scale == Pow(10, column_scale)
             x == v \div scale
             y == v % scale
         IN FmtD(x) \o <<".">> \o FmtZeroD(column_scale, y)
    ELSE FmtD(v)

DecimalWidths == {1, 2, 4, 8, 16}

-----------------------------------------------------------------------------
(* Date decode. *)

\* date_to_pydate on the unpacked integer l
date_fields(l0) ==
    LET l == l0 + 19000000
    IN <<TruncDiv(l, 10000), TruncDiv(TruncRem(l, 10000), 100), TruncRem(l, 100)>>

-----------------------------------------------------------------------------
(* strptime (glibc) on a NUL-terminated byte string, for the two formats used. *)

RECURSIVE SkipSpaces(_, _)
SkipSpaces(s, i) ==
    IF i <= Len(s) /\ s[i] = 32 THEN SkipSpaces(s, i + 1) ELSE i

RECURSIVE ReadDigits(_, _, _, _, _)
ReadDigits(s, i, val, left, to) ==
    IF left > 0 /\ val * 10 <= to /\ i <= Len(s) /\ IsDigit(s[i])
    THEN ReadDigits(s, i + 1, val * 10 + (s[i] - 48), left - 1, to)
    ELSE [val |-> val, next |-> i]

\* get_number(from, to, n): skips spaces, needs a digit, reads up to n digits
get_number(s, i, from, to, n) ==
    LET j == SkipSpaces(s, i) IN
    IF j > Len(s) \/ ~IsDigit(s[j]) THEN [ok |-> FALSE, val |-> 0, next |-> j]
    ELSE LET r == ReadDigits(s, j + 1, s[j] - 48, n - 1, to)
         IN [ok |-> from <= r.val /\ r.val <= to, val |-> r.val, next |-> r.next]

ParseStart == [ok |-> TRUE, i |-> 1, vals |-> <<>>]

ParseNum(st, s, from, to, n) ==
    IF ~st.ok THEN st
    ELSE LET g == get_number(s, st.i, from, to, n)
         IN [ok |-> g.ok, i |-> g.next, vals |-> Append(st.vals, g.val)]

\* an ordinary character of the format must be the next character of the input
ParseChar(st, s, ch) ==
    IF ~st.ok THEN st
    ELSE [st EXCEPT !.ok = st.i <= Len(s) /\ s[st.i] = ch, !.i = st.i + 1]

\* a space of the format matches any run of spaces of the input
ParseSpace(st, s) ==
    IF ~st.ok THEN st ELSE [st EXCEPT !.i = SkipSpaces(s, st.i)]

\* "%H:%M:%S"
ParseHMS(st, s) ==
    ParseNum(ParseChar(ParseNum(ParseChar(ParseNum(st, s, 0, 23, 2), s, 58),
                                s, 0, 59, 2), s, 58), s, 0, 61, 2)

\* strptime(buffer, "%H:%M:%S", &tm): ok iff the result is not NULL;
\* vals = <<tm_hour, tm_min, tm_sec>>
strptime_time(s) == ParseHMS(ParseStart, s)

\* "%Y-%m-%d"
ParseYMD(st, s) ==
    ParseNum(ParseChar(ParseNum(ParseChar(ParseNum(st, s, 0, 9999, 4), s, 45),
                                s, 1, 12, 2), s, 45), s, 1, 31, 2)

\* strptime(buffer, "%Y-%m-%d %H:%M:%S", &tm);
\* vals = <<tm_year + 1900, tm_mon + 1, tm_mday, tm_hour, tm_min, tm_sec>>
strptime_timestamp(s) == ParseHMS(ParseSpace(ParseYMD(ParseStart, s), s), s)

-----------------------------------------------------------------------------
(* Rows on the wire: each column is its descriptor (type, byte_length n,    *)
(* scale sc), the value val it was packed from and its bytes.               *)

Field(type, n, sc, val, bytes) ==
    [type |-> type, n |-> n, sc |-> sc, val |-> val, bytes |-> bytes]

IntType(w) == CASE w = 1 -> "Byte" [] w = 2 -> "Short" [] w = 4 -> "Integer" [] OTHER -> "Long"

IntSamples(w) ==
    CASE w = 1 -> {-128, -1, 5, 127}
      [] w = 2 -> {-32768, -123, 300}
      [] w = 4 -> {-12345, 70000}
      [] OTHER -> {-5, 123456789}

IntFields ==
    UNION {{Field(IntType(w), w, 0, v, pack_int(v, w)) : v \in IntSamples(w)} : w \in {1, 2, 4, 8}}

DecimalSamples(w) ==
    CASE w = 1 -> -128..127
      [] w = 2 -> {-32768, -123, -5, 0, 7, 1234, 32767}
      [] w = 4 -> {-2147483647, -12345, -5, 0, 99, 123456789}
      [] w = 8 -> {-123456789, -5, 0, 150, 2147483647}
      [] OTHER -> {-123456789, -123, -5, 0, 12345}

Scales == 0..MaxScale

DecimalFields ==
    UNION {{Field("Decimal", w, sc, v, pack_int(v, w)) : v \in DecimalSamples(w), sc \in Scales}
           : w \in DecimalWidths}
    \cup {Field("Decimal", 3, 0, 7, pack_int(7, 3))}

T2(n) == FmtZeroD(2, n)
T4(n) == FmtZeroD(4, n)
HMS(h, m, s) == T2(h) \o <<":">> \o T2(m) \o <<":">> \o T2(s)
YMD(y, m, d) == T4(y) \o <<"-">> \o T2(m) \o <<"-">> \o T2(d)

TimeTexts ==
    { HMS(9, 15, 30), HMS(23, 59, 59), HMS(0, 0, 0), HMS(24, 0, 0), HMS(9, 60, 0),
      HMS(9, 15, 30) \o <<".", "1", "2", "3">>,
      HMS(9, 15, 30) \o <<"x">>,
      <<"9", ":", "5", ":", "3">>,
      <<" ", "9", ":", "1", "5", ":", "3", "0">>,
      <<"0", "9", ":", "1", "5">>,
      <<"0", "9", "-", "1", "5", "-", "3", "0">>,
      <<"g", "A", "B", "x", "A", "g", "g">>,
      <<>> }

TimestampTexts ==
    { YMD(2017, 12, 31) \o <<" ">> \o HMS(9, 15, 30),
      YMD(1999, 1, 2) \o <<" ">> \o HMS(0, 0, 0),
      YMD(2017, 12, 31) \o <<" ">> \o HMS(9, 15, 30) \o <<".", "2", "5">>,
      YMD(2017, 12, 31) \o HMS(9, 15, 30),
      YMD(2017, 13, 1) \o <<" ">> \o HMS(9, 15, 30),
      YMD(2017, 12, 31) \o <<" ">> \o HMS(25, 15, 30),
      YMD(2017, 12, 31),
      HMS(9, 15, 30),
      <<"g", "A", "B", "x", "A", "g", "g">> }

CharTexts == { <<"A", "B">>, <<"A", "B", " ", " ", " ">>, <<"g">>, <<>> }

DateWire == {171231, 1171231, 0, -1, -8999899, 80991231}

TextFields ==
    {Field("Time", Len(t), 0, 0, Bytes(t)) : t \in TimeTexts}
    \cup {Field("Timestamp", Len(t), 0, 0, Bytes(t)) : t \in TimestampTexts}
    \cup {Field("Char", Len(t), 0, 0, Bytes(t)) : t \in CharTexts}
    \cup {Field("VarChar", Len(t), 0, 0, pack_int(Len(t), 2) \o Bytes(t)) : t \in CharTexts}
    \cup {Field("Date", 4, 0, l, pack_int(l, 4)) : l \in DateWire}

Fields == IntFields \cup DecimalFields \cup TextFields

\* columns that follow the first one in the two-column rows
Trailers == {Field("Byte", 1, 0, 5, pack_int(5, 1)), Field("Char", 2, 0, 0, Bytes(<<"A", "B">>))}

Rows == {<<f>> : f \in Fields} \cup {<<f, g>> : f \in Fields, g \in Trailers}

RECURSIVE RowBytes(_)
RowBytes(r) == IF r = <<>> THEN <<>> ELSE Head(r).bytes \o RowBytes(Tail(r))

\* what the memory after the row holds
FillBytes == {0, 120}
AfterLen == 4

-----------------------------------------------------------------------------
(* Decode: one action per unpack routine.  The row codec calls the routine  *)
(* of the next column's type and gives up the row when a routine returns    *)
(* NULL.                                                                    *)

BUFFER_SIZE == 8192

Ret(kind, val) == [kind |-> kind, val |-> val]
NULL == Ret("NULL", <<>>)

NoCall == [op |-> "none", n |-> 0, sc |-> 0, pos0 |-> 0, need |-> 0, ret |-> NULL]

\* the row codec's dispatch on the next column's type
Column(type) == col \in 1..Len(row) /\ row[col].type = type

\* a routine returns: the cursor is where it left it, the row codec moves on
Returned(op, n, sc, need, newpos, ret) ==
    /\ pos' = newpos
    /\ last' = [op |-> op, n |-> n, sc |-> sc, pos0 |-> pos, need |-> need, ret |-> ret]
    /\ col' = IF ret.kind = "NULL" THEN 0 ELSE col + 1
    /\ UNCHANGED <<mem, size, row>>

\* what a decode leaves alone besides the static buffer
DecodeIdle == UNCHANGED <<encVars, dbuf, concVars>>

\* byte_to_pylong, short_to_pylong, int_to_pylong, long_to_pylong:
\* unpack into an uninitialised local, return it as a Python int
int_to_pylong_w(op, w) ==
    \E g \in Uninit :
        LET u == unpack(pos, w, g)
        IN Returned(op, w, 0, w, u.pos, Ret("long", SignedLE(u.bytes)))

byte_to_pylong ==
    /\ Column("Byte")
    /\ int_to_pylong_w("byte_to_pylong", 1)
    /\ UNCHANGED buffer /\ DecodeIdle

short_to_pylong ==
    /\ Column("Short")
    /\ int_to_pylong_w("short_to_pylong", 2)
    /\ UNCHANGED buffer /\ DecodeIdle

int_to_pylong ==
    /\ Column("Integer")
    /\ int_to_pylong_w("int_to_pylong", 4)
    /\ UNCHANGED buffer /\ DecodeIdle

long_to_pylong ==
    /\ Column("Long")
    /\ int_to_pylong_w("long_to_pylong", 8)
    /\ UNCHANGED buffer /\ DecodeIdle

\* char_to_pystring(data, column_length) with the cursor at p in memory m: the string of the
\* next column_length bytes, whatever memory they are in, and the cursor past them
char_to_pystring_at(m, p, column_length) ==
    [ret |-> Ret("str", SubSeq(m, p + 1, p + column_length)), pos |-> p + column_length]

char_to_pystring ==
    /\ Column("Char")
    /\ LET n == row[col].n
           r == char_to_pystring_at(mem, pos, n)
       IN /\ pos + n <= Len(mem)
          /\ Returned("char_to_pystring", n, 0, n, r.pos, r.ret)
    /\ UNCHANGED buffer /\ DecodeIdle

vchar_to_pystring ==
    /\ Column("VarChar")
    /\ \E g \in UninitLength :
        LET u == unpack(pos, 2, g)
            H == UnsignedLE(u.bytes)
            r == char_to_pystring_at(mem, u.pos, H)
        IN /\ u.pos + H <= Len(mem)
           /\ Returned("vchar_to_pystring", H, 0, IF u.ok THEN 2 + H ELSE 2, r.pos, r.ret)
    /\ UNCHANGED buffer /\ DecodeIdle

\* a decoder that moves the cursor on a match and then falls into the fallback too
time_result_twice(tm, m, p, column_length) ==
    IF tm.ok
    THEN [ret |-> Ret("time", tm.vals \o <<0>>), pos |-> p + 2 * column_length]
    ELSE char_to_pystring_at(m, p, column_length)

\* char_to_time after the copy: the parsed fields with fraction 0 and the cursor
\* moved past the field, or else what char_to_pystring makes of the field
time_result(tm, m, p, column_length) ==
    IF tm.ok
    THEN [ret |-> Ret("time", tm.vals \o <<0>>), pos |-> p + column_length]
    ELSE char_to_pystring_at(m, p, column_length)

\* char_to_timestamp after the copy
timestamp_result(tm, m, p, column_length) ==
    IF tm.ok
    THEN [ret |-> Ret("timestamp", tm.vals \o <<0>>), pos |-> p + column_length]
    ELSE char_to_pystring_at(m, p, column_length)

\* memcpy(buffer, *data, column_length); buffer[column_length] = '\0'
copy_to_buffer(p, column_length) == SubSeq(mem, p + 1, p + column_length) \o <<0>>

char_to_time ==
    /\ Column("Time")
    /\ LET n == row[col].n
           b == copy_to_buffer(pos, n)
           r == time_result(strptime_time(b), mem, pos, n)
       IN /\ n < BUFFER_SIZE /\ pos + n <= Len(mem)
          /\ buffer' = b
          /\ Returned("char_to_time", n, 0, n, r.pos, r.ret)
    /\ DecodeIdle

char_to_timestamp ==
    /\ Column("Timestamp")
    /\ LET n == row[col].n
           b == copy_to_buffer(pos, n)
           r == timestamp_result(strptime_timestamp(b), mem, pos, n)
       IN /\ n < BUFFER_SIZE /\ pos + n <= Len(mem)
          /\ buffer' = b
          /\ Returned("char_to_timestamp", n, 0, n, r.pos, r.ret)
    /\ DecodeIdle

date_to_pydate ==
    /\ Column("Date")
    /\ \E g \in Uninit :
        LET u == unpack(pos, 4, g)
        IN Returned("date_to_pydate", 4, 0, 4, u.pos, Ret("date", date_fields(SignedLE(u.bytes))))
    /\ UNCHANGED buffer /\ DecodeIdle

\* the text of a decimal of 16 bytes; "#" stands for the digits of a value wider
\* than the model's integers
decimal128_text(bs, column_scale) ==
    IF Representable(bs) THEN decimal128_to_pystring(SignedLE(bs), column_scale) ELSE <<"#">>

\* decimal_to_pystring(data, column_length, column_scale): the switch on the width
decimal_to_pystring ==
    /\ Column("Decimal")
    /\ LET n == row[col].n
           sc == row[col].sc
       IN \/ /\ n \in {1, 2, 4, 8}
             /\ \E g \in Uninit, scale \in pow_cast(n, sc) :
                  LET u == unpack(pos, n, g)
                  IN Returned("decimal_to_pystring", n, sc, n, u.pos,
                              Ret("text", decimalN_to_pystring(SignedLE(u.bytes), sc, scale)))
          \/ /\ n = 16
             /\ \E g1 \in Uninit, g2 \in Uninit :
                  LET Q == unpack(pos, 8, g1)
                      q == unpack(Q.pos, 8, g2)
                  IN Returned("decimal_to_pystring", n, sc, n, q.pos,
                              Ret("text", decimal128_text(Q.bytes \o q.bytes, sc)))
          \/ /\ n \notin DecimalWidths
             /\ Returned("decimal_to_pystring", n, sc, n, pos, NULL)
    /\ UNCHANGED buffer /\ DecodeIdle

Max(a, b) == IF a > b THEN a ELSE b

\* a row arrives: the buffer holds it, or ends up to MaxCut bytes early
InitDecode ==
    /\ \E r \in Rows, cut \in 0..MaxCut, fill \in FillBytes :
         /\ row = r
         /\ mem = RowBytes(r) \o Repeat(fill, AfterLen)
         /\ size = Max(0, Len(RowBytes(r)) - cut)
    /\ pos = 0
    /\ col = 1
    /\ out = <<>> /\ len = 0 /\ ncalls = 0
    /\ last = NoCall
    /\ buffer = <<>> /\ dbuf = <<>>
    /\ pc = <<>> /\ arg = <<>> /\ tres = <<>>

NextDecode ==
    \/ char_to_pystring
    \/ vchar_to_pystring
    \/ byte_to_pylong
    \/ short_to_pylong
    \/ int_to_pylong
    \/ long_to_pylong
    \/ char_to_time
    \/ char_to_timestamp
    \/ date_to_pydate
    \/ decimal_to_pystring

SpecDecode == InitDecode /\ [][NextDecode]_vars

-----------------------------------------------------------------------------
(* Properties of decode. *)

\* the column the last call decoded
LastField == row[col - 1]

\* the last call's field lay wholly inside the row buffer
LastInside == last.pos0 + last.need <= size

\* the text the specification gives a packed decimal v of the given scale:
\* v's digits for scale 0, else [-]x.y with x = |v| / 10^scale and
\* y = |v| % 10^scale zero-padded to scale digits
SpecDecimalText(v, scale) ==
    IF scale = 0 THEN FmtD(v)
    ELSE (IF v < 0 THEN <<"-">> ELSE <<>>)
         \o Digits(Abs(v) \div Pow(10, scale))
         \o <<".">>
         \o Repeat("0", scale - Len(Digits(Abs(v) % Pow(10, scale))))
         \o Digits(Abs(v) % Pow(10, scale))

\* C1: a decode of a field that needs more bytes than the buffer has left returns an
\* error and leaves the cursor where it was, and the cursor is never past the end of
\* the buffer.
C1_OutOfBounds ==
    /\ pos <= size
    /\ (last.op # "none" /\ ~LastInside) => (last.ret.kind = "NULL" /\ pos = last.pos0)

\* C4: a 16-byte decimal, low word first and high word second, decodes to the text
\* of the 128-bit value: its digits for scale 0, [-]x.y of the absolute value otherwise.
C4_Decimal128Text ==
    (last.op = "decimal_to_pystring" /\ last.n = 16 /\ LastInside)
        => last.ret = Ret("text", SpecDecimalText(LastField.val, last.sc))

-----------------------------------------------------------------------------
(* Python objects handed to the encode routines, and the CPython calls made *)
(* on them.                                                                 *)

Str(t) == [kind |-> "str", text |-> t, v |-> 0]
Long(v) == [kind |-> "long", text |-> <<>>, v |-> v]
\* an int beyond the range of a C long
BigLong == [kind |-> "biglong", text |-> <<>>, v |-> 0]
\* a float, named by its repr
Float(t) == [kind |-> "float", text |-> t, v |-> 0]

\* PyLong_AsLong / PyLong_AsLongLong: the value, or -1 with an exception set when
\* the object is NULL or its value does not fit
PyLong_AsLong(o) ==
    IF o.kind = "long" THEN [val |-> o.v, err |-> FALSE] ELSE [val |-> -1, err |-> TRUE]

RECURSIVE DigitsValue(_)
DigitsValue(ds) ==
    IF ds = <<>> THEN 0 ELSE 10 * DigitsValue(SubSeq(ds, 1, Len(ds) - 1)) + (Ord(ds[Len(ds)]) - 48)

RECURSIVE StripLeft(_)
StripLeft(t) == IF t # <<>> /\ t[1] = " " THEN StripLeft(Tail(t)) ELSE t

RECURSIVE StripRight(_)
StripRight(t) ==
    IF t # <<>> /\ t[Len(t)] = " " THEN StripRight(SubSeq(t, 1, Len(t) - 1)) ELSE t

\* PyLong_FromString(str, NULL, 10), PyLong_FromUnicodeObject(u, 10): white space
\* around, an optional sign, then digits only; NULL otherwise
PyLong_FromString(t) ==
    LET u == StripRight(StripLeft(t))
        signed == u # <<>> /\ u[1] \in {"-", "+"}
        ds == IF signed THEN Tail(u) ELSE u
    IN IF ds # <<>> /\ \A i \in 1..Len(ds) : IsDigit(Ord(ds[i]))
       THEN Long(IF signed /\ u[1] = "-" THEN -DigitsValue(ds) ELSE DigitsValue(ds))
       ELSE NULL

\* PyUnicode_Replace(item, c, "", -1)
RECURSIVE Remove(_, _)
Remove(t, c) ==
    IF t = <<>> THEN <<>>
    ELSE (IF t[1] = c THEN <<>> ELSE <<t[1]>>) \o Remove(Tail(t), c)

\* index of the first c in t, 0 when there is none
RECURSIVE IndexOf(_, _)
IndexOf(t, c) ==
    IF t = <<>> THEN 0
    ELSE IF t[1] = c THEN 1
    ELSE LET i == IndexOf(Tail(t), c) IN IF i = 0 THEN 0 ELSE i + 1

\* PyUnicode_Split(item, ".", 1): one part, or the parts around the first point
Split1(t) ==
    LET i == IndexOf(t, ".")
    IN IF i = 0 THEN <<t>> ELSE <<SubSeq(t, 1, i - 1), SubSeq(t, i + 1, Len(t))>>

\* pack_float(buf, d): the 8 little-endian bytes of the IEEE-754 double
pack_float(t) ==
    CASE t = <<"1", ".", "0">> -> <<0, 0, 0, 0, 0, 0, 240, 63>>
      [] t = <<"-", "1", ".", "0">> -> <<0, 0, 0, 0, 0, 0, 240, 191>>
      [] OTHER -> <<0, 0, 0, 0, 0, 0, 0, 0>>

-----------------------------------------------------------------------------
(* Encode: one action per pack routine, on one output cursor and counter.   *)

None == Ret("None", <<>>)

\* a routine returns after writing bytes through *buf and adding dlen to *len
Wrote(op, item, n, sc, bytes, dlen, ret) ==
    /\ ncalls < MaxCalls
    /\ out' = out \o bytes
    /\ len' = (len + dlen) % 65536
    /\ ncalls' = ncalls + 1
    /\ last' = [op |-> op, item |-> item, n |-> n, sc |-> sc, ret |-> ret,
                out0 |-> Len(out), len0 |-> len]

\* a routine returns NULL before it wrote anything
Failed(op, item, n, sc) == Wrote(op, item, n, sc, <<>>, 0, NULL)

EncodeIdle == UNCHANGED <<decVars, buffer, concVars>>

SixChars == <<"A", "B", "g", "x", "A", "B">>

CharItems == {Str(<<"A", "B">>), Str(SixChars)}
CharLengths == {2, 5}

\* the bytes pystring_to_char writes: the text's, then fill = column_length - length
\* spaces when that is positive
char_bytes(text, column_length) ==
    Bytes(text) \o Repeat(32, column_length - Len(text))

pystring_to_char ==
    /\ \E s \in CharItems, n \in CharLengths :
         Wrote("pystring_to_char", s, n, 0, char_bytes(s.text, n), n, None)
    /\ UNCHANGED dbuf /\ EncodeIdle

LongItems == {Long(v) : v \in {-1, 5, 200, 70000}} \cup {BigLong, Str(<<"5">>)}

\* pylong_to_byte/short/int/long: the value converted to the local of w bytes;
\* NULL only when that is -1 and an exception is set
pylong_to_w(op, w) ==
    \E item \in LongItems :
        IF item.kind \notin {"long", "biglong"}
        THEN Failed(op, item, w, 0)
        ELSE LET r == PyLong_AsLong(item)
                 b == Narrow(r.val, w)
             IN IF b = -1 /\ r.err
                THEN Failed(op, item, w, 0)
                ELSE Wrote(op, item, w, 0, pack_int(b, w), w, None)

pylong_to_byte == pylong_to_w("pylong_to_byte", 1) /\ UNCHANGED dbuf /\ EncodeIdle

pylong_to_short == pylong_to_w("pylong_to_short", 2) /\ UNCHANGED dbuf /\ EncodeIdle

pylong_to_int == pylong_to_w("pylong_to_int", 4) /\ UNCHANGED dbuf /\ EncodeIdle

pylong_to_long == pylong_to_w("pylong_to_long", 8) /\ UNCHANGED dbuf /\ EncodeIdle

FloatItems == {Float(<<"1", ".", "0">>), Float(<<"-", "1", ".", "0">>), Long(5)}

pyfloat_to_float ==
    /\ \E item \in FloatItems :
         IF item.kind # "float"
         THEN Failed("pyfloat_to_float", item, 8, 0)
         ELSE Wrote("pyfloat_to_float", item, 8, 0, pack_float(item.text), 8, None)
    /\ UNCHANGED dbuf /\ EncodeIdle

Dates == {<<2017, 12, 31>>, <<1917, 12, 31>>, <<1900, 1, 1>>, <<1899, 12, 31>>,
          <<2000, 2, 29>>, <<9999, 12, 31>>, <<1, 1, 1>>}

DateItems == {Str(YMD(d[1], d[2], d[3])) : d \in Dates} \cup {Str(<<"g">>), Long(5)}

\* an encoder with the offset of another epoch
date_wire_2000(text) ==
    PyLong_AsLong(PyLong_FromString(Remove(text, "-"))).val - 20000000

\* the integer pydate_to_int packs for the date text: the digits left when the
\* hyphens are removed, as a number, less 19000000
date_wire(text) ==
    PyLong_AsLong(PyLong_FromString(Remove(text, "-"))).val - 19000000

pydate_to_int ==
    /\ \E item \in DateItems :
         IF item.kind # "str"
         THEN Failed("pydate_to_int", item, 4, 0)
         ELSE Wrote("pydate_to_int", item, 4, 0, pack_int(date_wire(item.text), 4), 4, None)
    /\ UNCHANGED dbuf /\ EncodeIdle

DecimalTexts == { <<"1", ".", "5">>, <<"-", "0", ".", "0", "5">>, <<"1", "2">>,
                  <<"1", ".", "5", "0">>, <<"1", ".", "2", ".", "3">> }

DecimalItems == {Str(t) : t \in DecimalTexts} \cup {Long(5)}

EncodeScales == {0, 2}

\* sprintf(dbuf, "%s%0*s", x, column_scale, y): y right-justified in column_scale
\* characters; the 0 flag is undefined for %s, and the C libraries pad with
\* spaces (glibc) or with zeros (BSD): pad is the one this build uses
sprintf_dbuf(x, column_scale, y, pad) == x \o Repeat(pad, column_scale - Len(y)) \o y

pystring_to_decimal ==
    \E item \in DecimalItems, n \in DecimalWidths, sc \in EncodeScales, pad \in {" ", "0"} :
        IF item.kind # "str"
        THEN Failed("pystring_to_decimal", item, n, sc) /\ UNCHANGED dbuf /\ EncodeIdle
        ELSE LET parts == Split1(item.text)
                 x == parts[1]
                 y == IF Len(parts) = 2 THEN parts[2] ELSE <<>>
                 d == sprintf_dbuf(x, sc, y, pad)
                 q == PyLong_AsLong(PyLong_FromString(d)).val
             IN /\ dbuf' = d
                /\ Wrote("pystring_to_decimal", item, n, sc, pack_int(q, 8), n, None)
                /\ EncodeIdle

InitEncode ==
    /\ out = <<>> /\ len = 0 /\ ncalls = 0
    /\ last = NoCall
    /\ mem = <<>> /\ size = 0 /\ pos = 0 /\ row = <<>> /\ col = 0
    /\ buffer = <<>> /\ dbuf = <<>>
    /\ pc = <<>> /\ arg = <<>> /\ tres = <<>>

NextEncode ==
    \/ pystring_to_decimal
    \/ pystring_to_char
    \/ pylong_to_byte
    \/ pylong_to_short
    \/ pylong_to_int
    \/ pylong_to_long
    \/ pyfloat_to_float
    \/ pydate_to_int

SpecEncode == InitEncode /\ [][NextEncode]_vars

-----------------------------------------------------------------------------
(* Properties of encode. *)

\* the bytes the last call wrote, and how far it moved the counter
Written == SubSeq(out, last.out0 + 1, Len(out))
Counted == len - last.len0

PylongOps == {"pylong_to_byte", "pylong_to_short", "pylong_to_int", "pylong_to_long"}

\* C2: a fixed Char encode of a text of at most byte_length bytes writes exactly
\* byte_length bytes, the text's then spaces; of a longer text it fails and writes
\* nothing past byte_length bytes.
C2_FieldTooLong ==
    last.op = "pystring_to_char" =>
        IF Len(last.item.text) <= last.n
        THEN /\ last.ret = None
             /\ Len(Written) = last.n
             /\ Written = Bytes(last.item.text) \o Repeat(32, last.n - Len(last.item.text))
        ELSE /\ last.ret.kind = "NULL"
             /\ Len(Written) <= last.n

\* C3: an integer encode of width w of a value outside the signed range of w bytes
\* returns an error and writes nothing.
C3_OutOfRange ==
    (/\ last.op \in PylongOps
     /\ \/ last.item.kind = "biglong"
        \/ last.item.kind = "long" /\ ~Fits(last.item.v, last.n))
        => (last.ret.kind = "NULL" /\ Written = <<>>)

\* a decimal text: an optional sign and digits, then at most one point and at most
\* scale digits
DecimalText(t, scale) ==
    LET parts == Split1(t)
        x == parts[1]
        ds == IF x # <<>> /\ x[1] \in {"-", "+"} THEN Tail(x) ELSE x
        y == IF Len(parts) = 2 THEN parts[2] ELSE <<>>
    IN /\ ds # <<>> /\ \A i \in 1..Len(ds) : IsDigit(Ord(ds[i]))
       /\ \A i \in 1..Len(y) : IsDigit(Ord(y[i]))
       /\ Len(y) <= scale
       /\ Len(parts) = 2 => y # <<>>

\* the integer a decimal text stands for at the given scale
ScaledInteger(t, scale) ==
    LET parts == Split1(t)
        x == parts[1]
        neg == x[1] = "-"
        ds == IF x[1] \in {"-", "+"} THEN Tail(x) ELSE x
        y == IF Len(parts) = 2 THEN parts[2] ELSE <<>>
        m == DigitsValue(ds) * Pow(10, scale) + DigitsValue(y) * Pow(10, scale - Len(y))
    IN IF neg THEN -m ELSE m

\* a decimal text with its fraction zero-extended to scale digits
ZeroExtended(t, scale) ==
    LET parts == Split1(t)
        y == IF Len(parts) = 2 THEN parts[2] ELSE <<>>
    IN IF scale = 0 THEN parts[1]
       ELSE parts[1] \o <<".">> \o y \o Repeat("0", scale - Len(y))

\* decimal_to_pystring on a buffer that holds exactly the bytes bs
decimal_of_bytes(bs, column_length, column_scale) ==
    IF column_length = 16 THEN decimal128_text(bs, column_scale)
    ELSE decimalN_to_pystring(SignedLE(bs), column_scale, Pow(10, column_scale))

\* C6: decimal decode of the bytes decimal encode wrote, with the same byte_length
\* and scale, gives back the text with its fraction zero-extended to scale digits.
C6_DecimalRoundTrip ==
    (/\ last.op = "pystring_to_decimal" /\ last.item.kind = "str"
     /\ DecimalText(last.item.text, last.sc)
     /\ Fits(ScaledInteger(last.item.text, last.sc), last.n))
        => /\ last.ret = None
           /\ Len(Written) = last.n
           /\ decimal_of_bytes(Written, last.n, last.sc) = ZeroExtended(last.item.text, last.sc)

\* C10: the byte counter has grown by what the output cursor has moved, in all and by
\* each call, and a call that failed changed neither.
C10_LenTracksCursor ==
    /\ len = Len(out)
    /\ last.op # "none" => Counted = Len(Written)
    /\ (last.op # "none" /\ last.ret.kind = "NULL") => (Counted = 0 /\ Written = <<>>)

-----------------------------------------------------------------------------
(* Two calls at once, each on its own data, both through the module's       *)
(* buffer and dbuf.  A call is a Time decode (memcpy into buffer, terminate *)
(* it, strptime on it) or a decimal encode (sprintf into dbuf, parse dbuf). *)

Calls == {1, 2}

TimeCall(t) == [kind |-> "time", text |-> t, sc |-> 0]
DecimalCall(t, sc) == [kind |-> "decimal", text |-> t, sc |-> sc]

CallArgs ==
    {TimeCall(HMS(9, 15, 30)), TimeCall(HMS(23, 59, 59)),
     TimeCall(<<"g", "A", "B", "x", "A", "g", "g">>)}
    \cup {DecimalCall(<<"1", ".", "5", "0">>, 2), DecimalCall(<<"1", "2">>, 0),
          DecimalCall(<<"-", "0", ".", "0", "5">>, 2)}

\* an array after n bytes are copied to its start
Overwrite(array, bytes) == bytes \o SubSeq(array, Len(bytes) + 1, Len(array))

\* an array after its element at offset n is set
SetAt(array, n, b) ==
    IF n < Len(array) THEN [array EXCEPT ![n + 1] = b] ELSE array \o <<b>>

\* the string an array holds: what precedes its first NUL
RECURSIVE CString(_)
CString(array) ==
    IF array = <<>> \/ array[1] = 0 THEN <<>> ELSE <<array[1]>> \o CString(Tail(array))

\* memcpy(buffer, (char*)*data, column_length)
time_memcpy(c) ==
    /\ pc[c] = "start" /\ arg[c].kind = "time"
    /\ buffer' = Overwrite(buffer, Bytes(arg[c].text))
    /\ pc' = [pc EXCEPT ![c] = "copied"]
    /\ UNCHANGED <<decVars, encVars, last, dbuf, arg, tres>>

\* buffer[column_length] = '\0'
time_terminate(c) ==
    /\ pc[c] = "copied"
    /\ buffer' = SetAt(buffer, Len(arg[c].text), 0)
    /\ pc' = [pc EXCEPT ![c] = "terminated"]
    /\ UNCHANGED <<decVars, encVars, last, dbuf, arg, tres>>

\* strptime(buffer, "%H:%M:%S", &tm) and the return
time_strptime(c) ==
    /\ pc[c] = "terminated"
    /\ LET data == Bytes(arg[c].text)
           tm == strptime_time(CString(buffer) \o <<0>>)
       IN tres' = [tres EXCEPT ![c] = time_result(tm, data, 0, Len(data)).ret]
    /\ pc' = [pc EXCEPT ![c] = "done"]
    /\ UNCHANGED <<decVars, encVars, last, buffer, dbuf, arg>>

\* sprintf(dbuf, "%s%0*s", x, column_scale, y)
decimal_sprintf(c) ==
    /\ pc[c] = "start" /\ arg[c].kind = "decimal"
    /\ LET parts == Split1(arg[c].text)
           y == IF Len(parts) = 2 THEN parts[2] ELSE <<>>
       IN dbuf' = sprintf_dbuf(parts[1], arg[c].sc, y, " ")
    /\ pc' = [pc EXCEPT ![c] = "formatted"]
    /\ UNCHANGED <<decVars, encVars, last, buffer, arg, tres>>

\* PyLong_FromString(dbuf, NULL, 10), PyLong_AsLongLong and pack_int64_t
decimal_parse(c) ==
    /\ pc[c] = "formatted"
    /\ tres' = [tres EXCEPT ![c] =
                   Ret("bytes", pack_int(PyLong_AsLong(PyLong_FromString(dbuf)).val, 8))]
    /\ pc' = [pc EXCEPT ![c] = "done"]
    /\ UNCHANGED <<decVars, encVars, last, buffer, dbuf, arg>>

InitConc ==
    /\ arg \in [Calls -> CallArgs]
    /\ pc = [c \in Calls |-> "start"]
    /\ tres = [c \in Calls |-> NULL]
    /\ buffer = <<>> /\ dbuf = <<>>
    /\ mem = <<>> /\ size = 0 /\ pos = 0 /\ row = <<>> /\ col = 0
    /\ out = <<>> /\ len = 0 /\ ncalls = 0
    /\ last = NoCall

NextConc ==
    \E c \in Calls :
        \/ time_memcpy(c)
        \/ time_terminate(c)
        \/ time_strptime(c)
        \/ decimal_sprintf(c)
        \/ decimal_parse(c)

SpecConc == InitConc /\ [][NextConc]_vars

\* what a call returns when it runs alone
Alone(a) ==
    IF a.kind = "time"
    THEN LET data == Bytes(a.text)
         IN time_result(strptime_time(data \o <<0>>), data, 0, Len(data)).ret
    ELSE LET parts == Split1(a.text)
             y == IF Len(parts) = 2 THEN parts[2] ELSE <<>>
             d == sprintf_dbuf(parts[1], a.sc, y, " ")
         IN Ret("bytes", pack_int(PyLong_AsLong(PyLong_FromString(d)).val, 8))

\* C9: under every interleaving of two calls, each on its own data, each call returns
\* what it returns when it runs alone.
C9_NoSharedState ==
    \A c \in Calls : pc[c] = "done" => tres[c] = Alone(arg[c])

-----------------------------------------------------------------------------
(* The date codec end to end: dates are encoded onto an output cursor, the  *)
(* host hands the bytes written to the decoder as a row of Date columns,    *)
(* and the row is decoded.                                                  *)

\* the host reads back the row it encoded
read_back ==
    /\ out # <<>> /\ mem # out
    /\ mem' = out /\ size' = Len(out) /\ pos' = 0 /\ col' = 1
    /\ row' = [i \in 1..(Len(out) \div 4) |->
                  Field("Date", 4, 0, 0, SubSeq(out, 4 * i - 3, 4 * i))]
    /\ last' = NoCall
    /\ UNCHANGED <<encVars, buffer, dbuf, concVars>>

NextDate ==
    \/ pydate_to_int
    \/ read_back
    \/ date_to_pydate

SpecDate == InitEncode /\ [][NextDate]_vars

\* the wire integer the specification gives a date
SpecDateWire(d) == d[1] * 10000 + d[2] * 100 + d[3] - 19000000

\* date encode of (year, month, day) writes year*10000 + month*100 + day - 19000000
\* as 4 bytes, and date decode of the bytes written for (year, month, day) returns
\* (year, month, day)
DateRoundTrip ==
    \A d \in Dates :
        /\ (last.op = "pydate_to_int" /\ last.item = Str(YMD(d[1], d[2], d[3])))
              => /\ last.ret = None
                 /\ Written = pack_int(SpecDateWire(d), 4)
        /\ (last.op = "date_to_pydate" /\ LastField.bytes = pack_int(SpecDateWire(d), 4))
              => /\ last.ret = Ret("date", d)
                 /\ pos = last.pos0 + 4

\* C7 as stated: the date round trip, with 171231 as the wire integer of 2017-12-31.
C7_DateExample ==
    /\ DateRoundTrip
    /\ (last.op = "pydate_to_int" /\ last.item = Str(YMD(2017, 12, 31)))
          => SignedLE(Written) = 171231
    /\ (last.op = "date_to_pydate" /\ LastField.bytes = pack_int(171231, 4))
          => last.ret = Ret("date", <<2017, 12, 31>>)

\* C7 amended: the date round trip, with 1171231 as the wire integer of 2017-12-31
\* (171231 is the wire integer of 1917-12-31).
C7_DateRoundTrip ==
    /\ DateRoundTrip
    /\ (last.op = "pydate_to_int" /\ last.item = Str(YMD(2017, 12, 31)))
          => SignedLE(Written) = 1171231
    /\ (last.op = "date_to_pydate" /\ LastField.bytes = pack_int(1171231, 4))
          => last.ret = Ret("date", <<2017, 12, 31>>)
    /\ (last.op = "date_to_pydate" /\ LastField.bytes = pack_int(171231, 4))
          => last.ret = Ret("date", <<1917, 12, 31>>)

\* 2017-12-31 was encoded as the 4 bytes of 1171231, read back and decoded to
\* (2017, 12, 31)
C7_Witness ==
    /\ last.op = "date_to_pydate"
    /\ LastField.bytes = pack_int(1171231, 4)
    /\ SubSeq(out, 4 * (col - 1) - 3, 4 * (col - 1)) = LastField.bytes
    /\ last.ret = Ret("date", <<2017, 12, 31>>)

=============================================================================
